---- MODULE Spec2Model ----
(***************************************************************************)
(* A model of github-actions-merger (src/main.go): the run of main, the    *)
(* authorization gate validateEnv, the commit message synthesis            *)
(* (splitReleaseNote, newCommitBody, bodyTpl, generateCommitSubject) and   *)
(* the error classifier errMsg.                                            *)
(*                                                                         *)
(* Strings are sequences of tokens.  A token is a piece of text that the   *)
(* program's regular expressions and string functions never look inside:   *)
(* a fence of three backquotes, "release-note", "\n", " ", a character "x", *)
(* and the fixed phrases of the messages.  Concatenation is \o.            *)
(***************************************************************************)
EXTENDS Integers, Sequences, FiniteSets, TLC

VARIABLES
    pc,            \* position of the run
    e,             \* env (main.go:19-29)
    pr,            \* the *github.PullRequest read by merge / generateCommitBody
    verr,          \* validateEnv's result in main
    err,           \* the error main is handling
    commitMsg,     \* generateCommitBody's output
    calls,         \* history: the external operations invoked, in order
    comments,      \* the comments delivered to the pull request
    exitCode,      \* -1 while running, then the process's exit status
    panicMsg,      \* the value main panicked with
    body,          \* splitReleaseNote's argument
    description,   \* splitReleaseNote's first result
    releaseNote,   \* splitReleaseNote's second result
    description2,  \* first result of a second splitReleaseNote, on description
    releaseNote2,  \* second result of that second call
    errIn,         \* errMsg's argument
    errOut         \* errMsg's result

vars == <<pc, e, pr, verr, err, commitMsg, calls, comments, exitCode, panicMsg,
          body, description, releaseNote, description2, releaseNote2,
          errIn, errOut>>

mainVars == <<e, pr, verr, err, commitMsg, calls, comments, exitCode, panicMsg>>
splitVars == <<body, description, releaseNote, description2, releaseNote2>>
errVars == <<errIn, errOut>>

----------------------------------------------------------------------------
(* Bounds *)

MaxPieces == 5
MaxTplPieces == 2
MaxLabels == 2
MaxMsgPieces == 5
MaxMergers == 2

----------------------------------------------------------------------------
(* Tokens and strings *)

\* F stands for the three backquotes of a fence (a backquote cannot be
\* written in a TLA+ string).
F == "[fence]"
T == "release-note"
NL == "\n"
SP == " "
X == "x"

IsSpace(t) == t \in {SP, NL}

SeqsUpTo(S, n) == UNION {[1..k -> S] : k \in 0..n}

RECURSIVE Flatten(_)
Flatten(ps) == IF ps = <<>> THEN <<>> ELSE Head(ps) \o Flatten(Tail(ps))

Min(S) == CHOOSE m \in S : \A o \in S : m <= o
Max(S) == CHOOSE m \in S : \A o \in S : m >= o

\* strings.Index(s, old), 1-based; 0 when old does not occur in s.
OccursAt(s, old, i) ==
    /\ i >= 1
    /\ i + Len(old) - 1 <= Len(s)
    /\ \A k \in 1..Len(old) : s[i + k - 1] = old[k]

Index(s, old) ==
    LET occ == {i \in 1..Len(s) : OccursAt(s, old, i)}
    IN  IF occ = {} THEN 0 ELSE Min(occ)

\* Faulty variant: strings.Replace(s, old, "", 1), only the first occurrence.
ReplaceFirst(s, old) ==
    LET j == Index(s, old)
    IN  IF j = 0
        THEN s
        ELSE SubSeq(s, 1, j - 1) \o SubSeq(s, j + Len(old), Len(s))

\* strings.ReplaceAll(s, old, "") for a non-empty old: one scan from the
\* left, every occurrence that starts after the previous one ended is dropped.
RECURSIVE ReplaceAll(_, _)
ReplaceAll(s, old) ==
    LET j == Index(s, old)
    IN  IF j = 0
        THEN s
        ELSE SubSeq(s, 1, j - 1)
               \o ReplaceAll(SubSeq(s, j + Len(old), Len(s)), old)

\* strings.TrimSpace
RECURSIVE TrimLeft(_)
TrimLeft(s) == IF s # <<>> /\ IsSpace(Head(s)) THEN TrimLeft(Tail(s)) ELSE s

RECURSIVE TrimRight(_)
TrimRight(s) ==
    IF s # <<>> /\ IsSpace(s[Len(s)])
    THEN TrimRight(SubSeq(s, 1, Len(s) - 1))
    ELSE s

TrimSpace(s) == TrimRight(TrimLeft(s))

----------------------------------------------------------------------------
(* releaseNoteRegexp and splitReleaseNote *)

NONE == <<"NONE">>

\* "```release-note\n" at position i
OpenAt(s, i) ==
    /\ i >= 1
    /\ i + 2 <= Len(s)
    /\ s[i] = F
    /\ s[i + 1] = T
    /\ s[i + 2] = NL

\* The lengths k for which  ```release-note\n(.+?)\n```  matches at i with a
\* group of k tokens: "." matches any token but "\n".
GroupLens(s, i) ==
    {k \in 1..Len(s) :
        /\ i + 4 + k <= Len(s)
        /\ \A m \in (i + 3)..(i + 2 + k) : s[m] # NL
        /\ s[i + 3 + k] = NL
        /\ s[i + 4 + k] = F}

MatchesAt(s, i) == OpenAt(s, i) /\ GroupLens(s, i) # {}

\* releaseNoteRegexp.FindStringSubmatch(s): <<>> (nil) without a match, else
\* <<the whole match, the group>> of the leftmost match, the group the
\* shortest one ("+?").
FindReleaseNote(s) ==
    LET starts == {i \in 1..Len(s) : MatchesAt(s, i)}
    IN  IF starts = {}
        THEN <<>>
        ELSE LET i == Min(starts)
                 k == Min(GroupLens(s, i))
             IN  <<SubSeq(s, i, i + 4 + k), SubSeq(s, i + 3, i + 2 + k)>>

\* Faulty variant: the block is stripped and the trimmed content returned whatever
\* it is, with "NONE" only without a match.
splitAlwaysStrips(b) ==
    LET ss == FindReleaseNote(b)
    IN  IF Len(ss) # 2
        THEN [description |-> b, releaseNote |-> NONE]
        ELSE [description |-> ReplaceAll(b, ss[1]),
              releaseNote |-> IF TrimSpace(ss[2]) # <<>> THEN TrimSpace(ss[2]) ELSE NONE]

\* Faulty variant: the release note is returned and the block left in the body.
splitKeepsBlock(b) ==
    LET ss == FindReleaseNote(b)
    IN  IF Len(ss) # 2
        THEN [description |-> b, releaseNote |-> NONE]
        ELSE LET rn == TrimSpace(ss[2])
             IN  [description |-> b, releaseNote |-> IF rn # <<>> THEN rn ELSE NONE]

splitReleaseNote(b) ==
    LET ss == FindReleaseNote(b)
    IN  IF Len(ss) # 2
        THEN [description |-> b, releaseNote |-> NONE]
        ELSE LET rn == TrimSpace(ss[2])
             IN  IF rn # <<>>
                 THEN [description |-> ReplaceAll(b, ss[1]), releaseNote |-> rn]
                 ELSE [description |-> b, releaseNote |-> NONE]

----------------------------------------------------------------------------
(* Pull request bodies *)

Open == <<F, T, NL>>
Close == <<NL, F>>
Block == Open \o <<X>> \o Close

Pieces == {<<X>>, <<SP>>, <<NL>>, <<F>>, Open, Close, Block}

BodiesUpTo(n) == {Flatten(ps) : ps \in SeqsUpTo(Pieces, n)}

Bodies == BodiesUpTo(MaxPieces)

----------------------------------------------------------------------------
(* The specification of splitReleaseNote: a body, one call, and a second   *)
(* call on the description the first returned.                             *)

NoStr == <<>>
NoErr == [nil |-> TRUE, msg |-> <<>>]
NoEnv == [Comment |-> "", Actor |-> "", Mergers |-> <<>>, PRNumber |-> 0,
          MergeMethod |-> "", EnableAutoMerge |-> FALSE]
NoPR == [Number |-> 0, Title |-> "", Body |-> <<>>, Labels |-> <<>>]

IdleMain ==
    /\ e = NoEnv
    /\ pr = NoPR
    /\ verr = NoErr
    /\ err = NoErr
    /\ commitMsg = NoStr
    /\ calls = <<>>
    /\ comments = <<>>
    /\ exitCode = -1
    /\ panicMsg = NoStr

IdleSplit ==
    /\ body = NoStr
    /\ description = NoStr
    /\ releaseNote = NoStr
    /\ description2 = NoStr
    /\ releaseNote2 = NoStr

IdleErr ==
    /\ errIn = NoErr
    /\ errOut = NoStr

InitSplit ==
    /\ pc = "split"
    /\ body \in Bodies
    /\ description = NoStr
    /\ releaseNote = NoStr
    /\ description2 = NoStr
    /\ releaseNote2 = NoStr
    /\ IdleMain
    /\ IdleErr

Split ==
    /\ pc = "split"
    /\ LET r == splitReleaseNote(body)
       IN  /\ description' = r.description
           /\ releaseNote' = r.releaseNote
    /\ pc' = "resplit"
    /\ UNCHANGED <<body, description2, releaseNote2>>
    /\ UNCHANGED mainVars
    /\ UNCHANGED errVars

Resplit ==
    /\ pc = "resplit"
    /\ LET r == splitReleaseNote(description)
       IN  /\ description2' = r.description
           /\ releaseNote2' = r.releaseNote
    /\ pc' = "splitdone"
    /\ UNCHANGED <<body, description, releaseNote>>
    /\ UNCHANGED mainVars
    /\ UNCHANGED errVars

NextSplit == Split \/ Resplit

SpecSplit == InitSplit /\ [][NextSplit]_vars

----------------------------------------------------------------------------
(* Release-note blocks as the specification describes them: an opening     *)
(* fence line, one or more lines of content (the content may hold "\n"),   *)
(* a closing fence; for an opening the nearest closing fence is taken.     *)

BlockEnds(s, i) ==
    {j \in 1..Len(s) : j >= i + 4 /\ j + 1 <= Len(s) /\ s[j] = NL /\ s[j + 1] = F}

BlockStarts(s) == {i \in 1..Len(s) : OpenAt(s, i) /\ BlockEnds(s, i) # {}}

BlockContent(s, i) == SubSeq(s, i + 3, Min(BlockEnds(s, i)) - 1)

Splitted == pc \in {"resplit", "splitdone"}

Occs(s, m) == {i \in 1..Len(s) : OccursAt(s, m, i)}

\* The occurrences of m in s met by one scan from the left that skips what
\* it has matched: pairwise disjoint, and every other occurrence overlaps an
\* earlier one of them.
ScanOccs(s, m) ==
    CHOOSE S \in SUBSET Occs(s, m) :
        /\ \A p, q \in S : p < q => p + Len(m) <= q
        /\ \A r \in Occs(s, m) \ S : \E p \in S : p < r /\ r < p + Len(m)

\* s without the positions of the occurrences of m that start in S
Without(s, m, S) ==
    LET kept == {q \in 1..Len(s) : \A p \in S : q < p \/ q >= p + Len(m)}
        at(k) == CHOOSE q \in kept : Cardinality({o \in kept : o <= q}) = k
    IN  [k \in 1..Cardinality(kept) |-> s[at(k)]]

CountOf(s, m) == Cardinality(Occs(s, m))

\* C5: for every body that contains a release-note block (content of one or
\* several lines) whose trimmed content is non-empty, splitReleaseNote finds
\* the first block and returns its trimmed content as the release note.
C5_FirstBlockContentReturned ==
    (Splitted /\ BlockStarts(body) # {})
        => LET c == TrimSpace(BlockContent(body, Min(BlockStarts(body))))
           IN  c # <<>> => releaseNote = c

\* C6: the release note is never empty; when the body has no release-note
\* block, or none with a non-empty trimmed content, the release note is
\* "NONE" and the description is the body, unchanged.
C6_NeverEmptyNoneKeepsBody ==
    Splitted
        => /\ releaseNote # <<>>
           /\ (\A i \in BlockStarts(body) : TrimSpace(BlockContent(body, i)) = <<>>)
                 => (releaseNote = NONE /\ description = body)

\* C6 witness: a body with a whitespace-only block has been split.
C6_Witness ==
    /\ Splitted
    /\ BlockStarts(body) # {}
    /\ \A i \in BlockStarts(body) : TrimSpace(BlockContent(body, i)) = <<>>
    /\ releaseNote = NONE

\* C9 as stated: when a block with content was found, the description is
\* the body with the first occurrence of the matched text removed and
\* nothing else, a later identical copy being kept.
C9_OnlyFirstOccurrenceRemoved ==
    (Splitted /\ releaseNote # NONE)
        => LET m == FindReleaseNote(body)[1]
           IN  description = Without(body, m, {Min(Occs(body, m))})

\* C9 amended: when a block with content was found, the description is the
\* body with every occurrence of the matched text removed (the occurrences
\* one left-to-right scan meets, at least one), every other token kept in
\* its order.
C9_EveryOccurrenceRemoved ==
    (Splitted /\ releaseNote # NONE)
        => LET m == FindReleaseNote(body)[1]
               S == ScanOccs(body, m)
           IN  /\ S # {}
               /\ description = Without(body, m, S)
               /\ Len(description) = Len(body) - Cardinality(S) * Len(m)

\* C9 witness: a body holding the matched block twice has been split.
C9_Witness ==
    /\ Splitted
    /\ releaseNote # NONE
    /\ Cardinality(ScanOccs(body, FindReleaseNote(body)[1])) >= 2
    /\ Len(description) > 0

\* C10 as stated: for every body, a second extraction on the description
\* finds no block: it returns "NONE" and the description unchanged.
C10_SecondPassFindsNothing ==
    pc = "splitdone" => (releaseNote2 = NONE /\ description2 = description)

\* C10 amended: for every body in which a closing fence ("\n" followed by
\* a fence) occurs at most once, the second extraction returns "NONE" and
\* the description unchanged.
C10_SecondPassOneClosingFence ==
    (pc = "splitdone" /\ CountOf(body, Close) <= 1)
        => (releaseNote2 = NONE /\ description2 = description)

\* C10 witness: a body with one closing fence whose block was extracted by
\* the first pass, after the second pass.
C10_Witness ==
    /\ pc = "splitdone"
    /\ CountOf(body, Close) = 1
    /\ releaseNote # NONE
    /\ description # <<>>

----------------------------------------------------------------------------
(* Errors, fmt.Errorf, strconv.Itoa *)

\* An error: nil, or a value whose Error() is msg.
ErrorOf(m) == [nil |-> FALSE, msg |-> m]

DigitToks == <<"0", "1", "2", "3", "4", "5", "6", "7", "8", "9">>

IsDigit(t) == \E d \in 1..Len(DigitToks) : DigitToks[d] = t

\* strconv.Itoa and fmt's %d: the decimal digits of n.
RECURSIVE Itoa(_)
Itoa(n) ==
    IF n < 0 THEN <<"-">> \o Itoa(-n)
    ELSE IF n < 10 THEN <<DigitToks[n + 1]>>
    ELSE Itoa(n \div 10) \o <<DigitToks[(n % 10) + 1]>>

----------------------------------------------------------------------------
(* validateEnv *)

mergeComment == "/merge"

\* the loop over e.Mergers of validateEnv
RECURSIVE actorMatches(_, _)
actorMatches(actor, ms) ==
    IF ms = <<>> THEN FALSE
    ELSE IF actor = Head(ms) THEN TRUE
    ELSE actorMatches(actor, Tail(ms))

\* Faulty variant: the mergers list is looked at before the comment.
validateActorFirst(v) ==
    IF Len(v.Mergers) # 0 /\ ~actorMatches(v.Actor, v.Mergers)
    THEN ErrorOf(<<"actor ", v.Actor, " is not in mergers list">>)
    ELSE IF v.Comment # mergeComment
    THEN ErrorOf(<<"comment must be ", mergeComment, ", got ", v.Comment>>)
    ELSE NoErr

validateEnv(v) ==
    IF v.Comment # mergeComment
    THEN ErrorOf(<<"comment must be ", mergeComment, ", got ", v.Comment>>)
    ELSE IF Len(v.Mergers) = 0
    THEN NoErr
    ELSE IF actorMatches(v.Actor, v.Mergers)
    THEN NoErr
    ELSE ErrorOf(<<"actor ", v.Actor, " is not in mergers list">>)

----------------------------------------------------------------------------
(* needApproveRegexp and errMsg *)

AtLeast == "At least "
Approving == " approving review is required by reviewers with write access"

\* The lengths k for which "At least ([0-9]+) approving review ..." matches
\* at i with a group of k digits.
DigitLens(s, i) ==
    {k \in 1..Len(s) :
        /\ i + k + 1 <= Len(s)
        /\ \A m \in (i + 1)..(i + k) : IsDigit(s[m])
        /\ s[i + k + 1] = Approving}

\* needApproveRegexp.FindStringSubmatch(s): the leftmost match, its group
\* the longest ("+").
FindNeedApprove(s) ==
    LET starts == {i \in 1..Len(s) : s[i] = AtLeast /\ DigitLens(s, i) # {}}
    IN  IF starts = {}
        THEN <<>>
        ELSE LET i == Min(starts)
                 k == Max(DigitLens(s, i))
             IN  <<SubSeq(s, i, i + k + 1), SubSeq(s, i + 1, i + k)>>

\* Faulty variant: the message is classified only when the pattern starts it.
errMsgAnchored(er) ==
    IF er.nil
    THEN <<"Succeeded!">>
    ELSE LET ss == FindNeedApprove(er.msg)
         IN  IF Len(ss) = 2 /\ OccursAt(er.msg, ss[1], 1)
             THEN <<"Need ">> \o ss[2] \o <<" approving review">>
             ELSE er.msg

errMsg(er) ==
    IF er.nil
    THEN <<"Succeeded!">>
    ELSE LET ss == FindNeedApprove(er.msg)
         IN  IF Len(ss) = 2
             THEN <<"Need ">> \o ss[2] \o <<" approving review">>
             ELSE er.msg

----------------------------------------------------------------------------
(* generateCommitSubject, newCommitBody, bodyTpl, generateCommitBody *)

generateCommitSubject(p) == <<p.Title, " (#">> \o Itoa(p.Number) \o <<")">>

newCommitBody(p) ==
    LET r == splitReleaseNote(p.Body)
    IN  [Message |-> r.description, Labels |-> p.Labels,
         ReleaseNote |-> r.releaseNote]

\* bodyTpl.Execute.  "{{-" drops the white space that ends the text before
\* it and "-}}" the white space that starts the text after it, so of the
\* template's text there remain: "\n" before the message, "\n" after the
\* first {{end}}, "\nLabels:" , "\n  * " before each label, and, after the
\* last "{{- end -}}", the fence without the three "\n" written before it.
bodyTpl(cb) ==
    (IF cb.Message # <<>> THEN <<NL>> \o cb.Message ELSE <<>>)
      \o <<NL>>
      \o (IF cb.Labels # <<>>
          THEN <<NL, "Labels:">>
                 \o Flatten([i \in 1..Len(cb.Labels) |-> <<NL, "  * ", cb.Labels[i]>>])
          ELSE <<>>)
      \o <<F, T, NL, "* ">> \o cb.ReleaseNote \o <<NL, F>>

generateCommitBody(p) == bodyTpl(newCommitBody(p))

----------------------------------------------------------------------------
(* The inputs of a run *)

Comments == {"/merge", "/Merge", "/merge now"}
Actors == {"alice", "Alice", "bob"}
MergerNames == {"alice", "bob"}
PRNumbers == {7, 42}
MergeMethods == {"merge", "squash"}
LabelNames == {"bug", "P1"}

Envs ==
    [Comment : Comments, Actor : Actors,
     Mergers : SeqsUpTo(MergerNames, MaxMergers), PRNumber : PRNumbers,
     MergeMethod : MergeMethods, EnableAutoMerge : BOOLEAN]

\* What PullRequests.Get may return for pull request n
PRsOf(n) ==
    [Number : {n}, Title : {"Fix crash"},
     Body : {<<>>, <<X, NL, NL>> \o Block},
     Labels : {<<>>, <<"bug", "P1">>}]

\* Errors of the external operations
GetErrs == {<<"404 Not Found">>}
TplErrs == {<<"template: commit: executing">>}
MergeErrs ==
    {<<"405 ", AtLeast, "2", Approving, ". []">>, <<"409 Conflict">>}
AutoMergeErrs == {<<"exit status 1">>}
CommentErrs == {<<"403 Forbidden">>}

OpGet == "PullRequests.Get"
OpMerge == "PullRequests.Merge"
OpAutoMerge == "gh pr merge --auto"
OpComment == "Issues.CreateComment"

Call(op, arg, ok) == [op |-> op, arg |-> arg, ok |-> ok]

----------------------------------------------------------------------------
(* main *)

Init ==
    /\ pc = "validate"
    /\ e \in Envs
    /\ pr = NoPR
    /\ verr = NoErr
    /\ err = NoErr
    /\ commitMsg = NoStr
    /\ calls = <<>>
    /\ comments = <<>>
    /\ exitCode = -1
    /\ panicMsg = NoStr
    /\ IdleSplit
    /\ IdleErr

\* Faulty variant: main goes on to merge whatever validateEnv returned.
ValidateIgnored ==
    /\ pc = "validate"
    /\ verr' = validateEnv(e)
    /\ pc' = "get"
    /\ UNCHANGED <<e, pr, err, commitMsg, calls, comments, exitCode, panicMsg>>
    /\ UNCHANGED splitVars
    /\ UNCHANGED errVars

\* main.go:46
Validate ==
    /\ pc = "validate"
    /\ LET r == validateEnv(e)
       IN  /\ verr' = r
           /\ err' = r
           /\ pc' = IF r.nil THEN "get" ELSE "sendErr"
    /\ UNCHANGED <<e, pr, commitMsg, calls, comments, exitCode, panicMsg>>
    /\ UNCHANGED splitVars
    /\ UNCHANGED errVars

\* merge, main.go:103-106
GetPR ==
    /\ pc = "get"
    /\ \/ \E p \in PRsOf(e.PRNumber) :
            /\ pr' = p
            /\ calls' = Append(calls, Call(OpGet, <<Itoa(e.PRNumber)>>, TRUE))
            /\ pc' = "generate"
            /\ UNCHANGED err
       \/ \E m \in GetErrs :
            /\ err' = ErrorOf(<<"failed to get pull request: ">> \o m)
            /\ calls' = Append(calls, Call(OpGet, <<Itoa(e.PRNumber)>>, FALSE))
            /\ pc' = "sendErr"
            /\ UNCHANGED pr
    /\ UNCHANGED <<e, verr, commitMsg, comments, exitCode, panicMsg>>
    /\ UNCHANGED splitVars
    /\ UNCHANGED errVars

\* merge, main.go:107-110
GenerateBody ==
    /\ pc = "generate"
    /\ \/ /\ commitMsg' = generateCommitBody(pr)
          /\ pc' = "merge"
          /\ UNCHANGED err
       \/ \E m \in TplErrs :
            /\ err' = ErrorOf(<<"failed to generate template: ">> \o m)
            /\ pc' = "sendErr"
            /\ UNCHANGED commitMsg
    /\ UNCHANGED <<e, pr, verr, calls, comments, exitCode, panicMsg>>
    /\ UNCHANGED splitVars
    /\ UNCHANGED errVars

\* merge, main.go:112-124
MergePR ==
    /\ pc = "merge"
    /\ LET op == IF e.EnableAutoMerge THEN OpAutoMerge ELSE OpMerge
           arg == <<Itoa(e.PRNumber), <<e.MergeMethod>>,
                    generateCommitSubject(pr), commitMsg>>
           errs == IF e.EnableAutoMerge THEN AutoMergeErrs ELSE MergeErrs
       IN  \/ /\ calls' = Append(calls, Call(op, arg, TRUE))
              /\ pc' = "sendSuccess"
              /\ UNCHANGED err
           \/ \E m \in errs :
                /\ calls' = Append(calls, Call(op, arg, FALSE))
                /\ err' = ErrorOf(<<"failed to merge pull request: ">> \o m)
                /\ pc' = "sendErr"
    /\ UNCHANGED <<e, pr, verr, commitMsg, comments, exitCode, panicMsg>>
    /\ UNCHANGED splitVars
    /\ UNCHANGED errVars

\* Faulty variant: a failed post of the error comment is tried once more.
SendFailureRetried ==
    /\ pc = "sendErr"
    /\ LET msg == <<Itoa(e.PRNumber), errMsg(err)>>
       IN  \/ /\ calls' = Append(calls, Call(OpComment, msg, TRUE))
              /\ comments' = Append(comments, errMsg(err))
              /\ panicMsg' = err.msg
           \/ \E m \in CommentErrs :
                /\ calls' = calls \o <<Call(OpComment, msg, FALSE),
                                       Call(OpComment, msg, FALSE)>>
                /\ panicMsg' = <<"failed to send message: ">> \o m
                /\ UNCHANGED comments
    /\ exitCode' = 2
    /\ pc' = "exit"
    /\ UNCHANGED <<e, pr, verr, err, commitMsg>>
    /\ UNCHANGED splitVars
    /\ UNCHANGED errVars

\* main.go:47-52 and 55-60: the error comment, then the panic (a Go program
\* that panics exits with status 2)
SendFailure ==
    /\ pc = "sendErr"
    /\ LET msg == <<Itoa(e.PRNumber), errMsg(err)>>
       IN  \/ /\ calls' = Append(calls, Call(OpComment, msg, TRUE))
              /\ comments' = Append(comments, errMsg(err))
              /\ panicMsg' = err.msg
           \/ \E m \in CommentErrs :
                /\ calls' = Append(calls, Call(OpComment, msg, FALSE))
                /\ panicMsg' = <<"failed to send message: ">> \o m
                /\ UNCHANGED comments
    /\ exitCode' = 2
    /\ pc' = "exit"
    /\ UNCHANGED <<e, pr, verr, err, commitMsg>>
    /\ UNCHANGED splitVars
    /\ UNCHANGED errVars

successMsg(n) == <<"Merged PR #">> \o Itoa(n) \o <<" successfully!">>

\* Faulty variant: main returns normally although the success comment failed.
SendSuccessUnchecked ==
    /\ pc = "sendSuccess"
    /\ LET msg == <<Itoa(e.PRNumber), successMsg(e.PRNumber)>>
       IN  \/ /\ calls' = Append(calls, Call(OpComment, msg, TRUE))
              /\ comments' = Append(comments, successMsg(e.PRNumber))
           \/ /\ calls' = Append(calls, Call(OpComment, msg, FALSE))
              /\ UNCHANGED comments
    /\ exitCode' = 0
    /\ pc' = "exit"
    /\ UNCHANGED <<e, pr, verr, err, commitMsg, panicMsg>>
    /\ UNCHANGED splitVars
    /\ UNCHANGED errVars

\* main.go:62-67
SendSuccess ==
    /\ pc = "sendSuccess"
    /\ LET msg == <<Itoa(e.PRNumber), successMsg(e.PRNumber)>>
       IN  \/ /\ calls' = Append(calls, Call(OpComment, msg, TRUE))
              /\ comments' = Append(comments, successMsg(e.PRNumber))
              /\ exitCode' = 0
              /\ UNCHANGED panicMsg
           \/ \E m \in CommentErrs :
                /\ calls' = Append(calls, Call(OpComment, msg, FALSE))
                /\ exitCode' = 2
                /\ panicMsg' = <<"failed to send message: ">> \o m
                /\ UNCHANGED comments
    /\ pc' = "exit"
    /\ UNCHANGED <<e, pr, verr, err, commitMsg>>
    /\ UNCHANGED splitVars
    /\ UNCHANGED errVars

Next ==
    \/ Validate
    \/ GetPR
    \/ GenerateBody
    \/ MergePR
    \/ SendFailure
    \/ SendSuccess

Spec == Init /\ [][Next]_vars

----------------------------------------------------------------------------
(* The specification of generateCommitBody: a pull request, one call. *)

TplPRs ==
    [Number : {7}, Title : {"Fix crash"}, Body : BodiesUpTo(MaxTplPieces),
     Labels : SeqsUpTo(LabelNames, MaxLabels)]

InitTpl ==
    /\ pc = "tpl"
    /\ pr \in TplPRs
    /\ e = NoEnv
    /\ verr = NoErr
    /\ err = NoErr
    /\ commitMsg = NoStr
    /\ calls = <<>>
    /\ comments = <<>>
    /\ exitCode = -1
    /\ panicMsg = NoStr
    /\ IdleSplit
    /\ IdleErr

Synthesize ==
    /\ pc = "tpl"
    /\ commitMsg' = generateCommitBody(pr)
    /\ pc' = "tpldone"
    /\ UNCHANGED <<e, pr, verr, err, calls, comments, exitCode, panicMsg>>
    /\ UNCHANGED splitVars
    /\ UNCHANGED errVars

NextTpl == Synthesize

SpecTpl == InitTpl /\ [][NextTpl]_vars

----------------------------------------------------------------------------
(* The specification of errMsg: an error, one call. *)

MsgPieces ==
    {<<AtLeast>>, <<"1">>, <<"2">>, <<Approving>>, <<X>>,
     <<AtLeast, "2", Approving>>}

ErrInputs ==
    {NoErr} \cup {ErrorOf(Flatten(ps)) : ps \in SeqsUpTo(MsgPieces, MaxMsgPieces)}

InitErr ==
    /\ pc = "classify"
    /\ errIn \in ErrInputs
    /\ errOut = NoStr
    /\ IdleMain
    /\ IdleSplit

Classify ==
    /\ pc = "classify"
    /\ errOut' = errMsg(errIn)
    /\ pc' = "classified"
    /\ UNCHANGED errIn
    /\ UNCHANGED mainVars
    /\ UNCHANGED splitVars

NextErr == Classify

SpecErr == InitErr /\ [][NextErr]_vars

----------------------------------------------------------------------------
(* Claims about validateEnv and main *)

IsMember(actor, ms) == \E i \in 1..Len(ms) : ms[i] = actor

AuthOK(v) == v.Comment = "/merge" /\ (v.Mergers = <<>> \/ IsMember(v.Actor, v.Mergers))

BadTrigger(c) == ErrorOf(<<"comment must be ", "/merge", ", got ", c>>)
ActorNotAuthorized(a) == ErrorOf(<<"actor ", a, " is not in mergers list">>)

OpsOf(ops) == {i \in 1..Len(calls) : calls[i].op \in ops}

MergeAccepted == \E i \in OpsOf({OpMerge, OpAutoMerge}) : calls[i].ok

SuccessDelivered ==
    \E i \in OpsOf({OpComment}) :
        /\ calls[i].ok
        /\ calls[i].arg[2] = <<"Merged PR #">> \o Itoa(e.PRNumber) \o <<" successfully!">>

\* C1: validateEnv fails with the bad-trigger error whenever the comment is
\* not exactly "/merge", whatever the actor and the mergers; otherwise it
\* succeeds when the mergers list is empty; otherwise it succeeds if and
\* only if the actor equals (case-sensitively) some merger, and fails with
\* the actor-not-authorized error in every remaining case.
C1_ValidateEnvContract ==
    pc # "validate"
        => /\ e.Comment # "/merge" => verr = BadTrigger(e.Comment)
           /\ (e.Comment = "/merge" /\ e.Mergers = <<>>) => verr = NoErr
           /\ (e.Comment = "/merge" /\ e.Mergers # <<>>)
                 => /\ verr = NoErr <=> IsMember(e.Actor, e.Mergers)
                    /\ ~IsMember(e.Actor, e.Mergers)
                          => verr = ActorNotAuthorized(e.Actor)

\* C1 witness: the actor differs from a merger only by case and is refused.
C1_Witness ==
    /\ pc # "validate"
    /\ e.Comment = "/merge"
    /\ e.Actor = "Alice"
    /\ e.Mergers = <<"alice">>
    /\ verr = ActorNotAuthorized("Alice")

\* C2: the fetch and both merge operations are invoked only after
\* validateEnv has succeeded, and a merge operation only after a fetch that
\* succeeded; when validateEnv fails, or the fetch fails, the only other
\* external operation of the run is the comment post.
C2_GateThenFetchThenMerge ==
    /\ \A i \in OpsOf({OpGet, OpMerge, OpAutoMerge}) : AuthOK(e) /\ verr = NoErr
    /\ \A i \in OpsOf({OpMerge, OpAutoMerge}) :
          \E j \in OpsOf({OpGet}) : j < i /\ calls[j].ok
    /\ ~AuthOK(e) => \A i \in 1..Len(calls) : calls[i].op = OpComment
    /\ \A j \in OpsOf({OpGet}) :
          ~calls[j].ok => \A i \in 1..Len(calls) : i # j => calls[i].op = OpComment

\* C2 witness: a run whose fetch failed has posted its comment and ended.
C2_Witness ==
    /\ pc = "exit"
    /\ \E j \in OpsOf({OpGet}) : ~calls[j].ok
    /\ Len(calls) = 2

\* C3: the exit code is 0 only when the merge (or auto-merge) request was
\* accepted and the success comment was delivered; every other run that
\* ends exits non-zero, and never before a comment post has been attempted.
C3_ExitCodeContract ==
    /\ pc # "exit" => exitCode = -1
    /\ pc = "exit" => exitCode \in {0, 2}
    /\ exitCode = 0 => (MergeAccepted /\ SuccessDelivered)
    /\ (pc = "exit" /\ ~(MergeAccepted /\ SuccessDelivered)) => exitCode > 0
    /\ exitCode > 0 => OpsOf({OpComment}) # {}

\* C3 witness: the merge was accepted, the success comment failed, and the
\* run exited non-zero.
C3_Witness ==
    /\ pc = "exit"
    /\ MergeAccepted
    /\ ~SuccessDelivered
    /\ exitCode = 2

\* C4: a run that ends in failure has invoked the comment post exactly once,
\* and no operation (fetch, merge, comment post) is ever invoked twice.
C4_ExactlyOneCommentPost ==
    /\ (pc = "exit" /\ exitCode # 0) => Cardinality(OpsOf({OpComment})) = 1
    /\ Cardinality(OpsOf({OpComment})) <= 1
    /\ Cardinality(OpsOf({OpGet})) <= 1
    /\ Cardinality(OpsOf({OpMerge, OpAutoMerge})) <= 1

\* C4 witness: a merge was refused, the error comment could not be posted,
\* and the run ended.
C4_Witness ==
    /\ pc = "exit"
    /\ \E i \in OpsOf({OpMerge, OpAutoMerge}) : ~calls[i].ok
    /\ \E i \in OpsOf({OpComment}) : ~calls[i].ok
    /\ comments = <<>>

----------------------------------------------------------------------------
(* Claim about the commit body *)

RECURSIVE Lines(_)
Lines(s) ==
    IF Index(s, <<NL>>) = 0
    THEN <<s>>
    ELSE <<SubSeq(s, 1, Index(s, <<NL>>) - 1)>>
           \o Lines(SubSeq(s, Index(s, <<NL>>) + 1, Len(s)))

IsLine(l) == l # <<>>

NonEmptyLines(s) == SelectSeq(Lines(s), IsLine)

LabelLines(ls) ==
    IF ls = <<>>
    THEN <<>>
    ELSE <<(<<"Labels:">>)>> \o [i \in 1..Len(ls) |-> <<"  * ", ls[i]>>]

\* C7: the commit body consists, in this order and each on lines of its own,
\* of the description if it is non-empty, a "Labels:" heading with one
\* bullet line per label if there is a label, and always, last, the
\* release-note block: an opening fence line, the line "* <releaseNote>",
\* a closing fence line.
C7_CommitBodyLayout ==
    pc = "tpldone"
        => LET r == splitReleaseNote(pr.Body)
           IN  NonEmptyLines(commitMsg)
                 = NonEmptyLines(r.description)
                     \o LabelLines(pr.Labels)
                     \o <<(<<F, T>>), (<<"* ">> \o r.releaseNote), (<<F>>)>>

\* The layout of C7 holds of every pull request without labels.
CommitBodyLayoutWithoutLabels ==
    (pc = "tpldone" /\ pr.Labels = <<>>)
        => LET r == splitReleaseNote(pr.Body)
           IN  NonEmptyLines(commitMsg)
                 = NonEmptyLines(r.description)
                     \o <<(<<F, T>>), (<<"* ">> \o r.releaseNote), (<<F>>)>>

----------------------------------------------------------------------------
(* Claim about errMsg *)

\* the places of "At least <digits> approving review ..." in s
NeedApproveHits(s) ==
    {h \in (1..Len(s)) \X (1..Len(s)) :
        /\ s[h[1]] = AtLeast
        /\ h[1] + h[2] + 1 <= Len(s)
        /\ \A m \in (h[1] + 1)..(h[1] + h[2]) : s[m] \in {"0", "1", "2", "3", "4", "5", "6", "7", "8", "9"}
        /\ s[h[1] + h[2] + 1] = Approving}

\* C8: errMsg returns "Need N approving review", N the digits of the (first)
\* "At least N approving review is required by reviewers with write access"
\* the message contains; the message unchanged when it contains none; and
\* "Succeeded!" for no error.
C8_ErrMsgContract ==
    pc = "classified"
        => IF errIn.nil
           THEN errOut = <<"Succeeded!">>
           ELSE LET hits == NeedApproveHits(errIn.msg)
                IN  IF hits = {}
                    THEN errOut = errIn.msg
                    ELSE LET h == CHOOSE h \in hits : \A o \in hits : h[1] <= o[1]
                         IN  errOut = <<"Need ">>
                                        \o SubSeq(errIn.msg, h[1] + 1, h[1] + h[2])
                                        \o <<" approving review">>

\* C8 witness: a message with other text before a two-digit requirement has
\* been classified.
C8_Witness ==
    /\ pc = "classified"
    /\ ~errIn.nil
    /\ \E h \in NeedApproveHits(errIn.msg) : h[1] > 1 /\ h[2] = 2
    /\ errOut = <<"Need ", "1", "2", " approving review">>

====
